---------------------------- MODULE Spec2Model ----------------------------
(***************************************************************************)
(* A model of the openQuiz game session engine                             *)
(* (backend/services/game_service.go, backend/handlers/game_handler.go):   *)
(* one game session with its durable rows (game, players, answers), the    *)
(* Redis snapshot of the session, the question timers that run as          *)
(* goroutines and the SubmitAnswer requests in flight.                     *)
(*                                                                         *)
(* HTTP handlers that only the host issues are one action each.            *)
(* SubmitAnswer is split at its database and Redis round trips, because    *)
(* nothing in the code serialises them: each round trip is a separate      *)
(* network call made without a lock or a transaction.  The timer tick is   *)
(* given both as one step (TimerTick) and split at its two Redis round     *)
(* trips (TimerRead, TimerStore).                                          *)
(***************************************************************************)
EXTENDS Integers, Sequences, FiniteSets, Bags, TLC

(***************************************************************************)
(* Bounds of the model.                                                    *)
(***************************************************************************)
\* questions of the quiz played in the session: 0..MaxQuestions
MaxQuestions == 2
\* players that may join the session
MaxPlayers == 2
\* timer goroutines alive at once
MaxTimers == 2
\* SubmitAnswer requests in flight at once
MaxInFlight == 2
\* game_answers rows the session may hold, requests in flight included
MaxAnswers == 2
\* time limit (seconds) of every question of the session's quiz
QuestionTimeLimit == 2
\* broadcast counters saturate here ("CountCap or more")
CountCap == 2
\* largest time limit of the scoring specification
MaxTimeLimit == 30
\* connections registered with the hub at one time
MaxClients == 2
\* capacity of a client's send channel; it stands for the 256 of RegisterClient
SendCap == 2
\* broadcasts that may be inside their loop at once
MaxCalls == 2
\* games rows in the specification of the pins
MaxGames == 2

\* the user that owns the quiz, and another authenticated user
QuizOwner == "host"
Users == {"host", "guest"}
\* display names a join request may carry
Names == {"ann", "bob"}
\* time_spent values and option ids a SubmitAnswer request may carry
TimeSpentInputs == {1}
OptionInputs == {1, 2}

VARIABLES
    numQuestions,  \* len(quiz.Questions) of the session's quiz
    game,          \* the games row: NilGame or [Status]
    players,       \* the players rows of the game, in id order
    answers,       \* the game_answers rows (a bag: no unique index)
    cache,         \* Redis key game:<pin>: NilState or a GameState
    timers,        \* bag of running runQuestionTimer goroutines
    inflight,      \* bag of SubmitAnswer requests past their checks
    sent,          \* game_end and question_end broadcasts, counted (saturating)
    lastMsg,       \* the latest broadcast
    msgFlip,       \* parity of the number of broadcasts made
    resp,          \* the latest response returned to a caller
    hub,           \* the Hub: its registered clients, and whether Run is blocked
    sc             \* the scoring specification's request and result

gameVars == <<numQuestions, game, players, answers, cache, timers, inflight,
              sent, lastMsg, msgFlip, resp, hub>>
vars == <<numQuestions, game, players, answers, cache, timers, inflight,
          sent, lastMsg, msgFlip, resp, hub, sc>>

(***************************************************************************)
(* Values.                                                                 *)
(***************************************************************************)
NilGame == [nil |-> TRUE]
NilState == [nil |-> TRUE]
NilQuestion == [nil |-> TRUE]
NoMsg == [type |-> "none"]
NoResp == [op |-> "none", err |-> ""]
ScIdle == [pc |-> "idle", reqTimeSpent |-> 0, timeSpent |-> 0, timeLimit |-> 1,
           isCorrect |-> FALSE, points |-> 0]

Max(a, b) == IF a >= b THEN a ELSE b
Min(a, b) == IF a <= b THEN a ELSE b
Abs(a) == IF a < 0 THEN -a ELSE a

\* Go's integer division truncates toward zero
GoDiv(a, b) ==
    LET q == Abs(a) \div Abs(b)
    IN  IF (a < 0) # (b < 0) THEN -q ELSE q

\* the quiz: question i (0-based) has id i+1 and two options, 2i+1 (the
\* correct one) and 2i+2
QuestionID(i) == i + 1
QuestionExists(qid) == qid \in 1..numQuestions
OptionExists(oid) == oid \in 1..(2 * numQuestions)
OptionIsCorrect(oid) == oid % 2 = 1
OptionQuestion(oid) == (oid + 1) \div 2

BagSize(b) == BagCardinality(b)
BagPut(b, e) == b (+) SetToBag({e})
BagTake(b, e) == b (-) SetToBag({e})

Resp(op, err) == [op |-> op, err |-> err]

Bump(n) == Min(n + 1, CountCap)

(***************************************************************************)
(* Scoring (GameService.calculatePoints).                                  *)
(***************************************************************************)
basePoints == 100

\* a faulty variant of calculatePoints: the division is made before the multiplication
calculatePointsDivideFirst(timeSpent, timeLimit, isCorrect) ==
    IF ~isCorrect
    THEN 0
    ELSE basePoints + Max(0, 50 * GoDiv(timeLimit - timeSpent, timeLimit))

calculatePoints(timeSpent, timeLimit, isCorrect) ==
    IF ~isCorrect
    THEN 0
    ELSE LET timeBonus == Max(0, GoDiv(50 * (timeLimit - timeSpent), timeLimit))
         IN  basePoints + timeBonus

\* SubmitAnswer's default for a time_spent of zero
\* a faulty variant of DefaultTimeSpent: a zero time_spent is kept
DefaultTimeSpentKeepsZero(reqTimeSpent, timeLimit) == reqTimeSpent

DefaultTimeSpent(reqTimeSpent, timeLimit) ==
    IF reqTimeSpent = 0 THEN timeLimit ELSE reqTimeSpent

(***************************************************************************)
(* The snapshot (GameState) and the rows it is built from.                 *)
(***************************************************************************)
GamePlayer(row) == [ID |-> row.ID, Name |-> row.Name, Score |-> row.Score]

\* the players rows as GamePlayer values, in row order
GamePlayers(rows) == [i \in 1..Len(rows) |-> GamePlayer(rows[i])]

NewGameState(status, total) ==
    [Status |-> status, CurrentQuestion |-> NilQuestion,
     CurrentQuestionIndex |-> -1, Players |-> <<>>, TotalQuestions |-> total]

\* the ids of the options of a question: two each, the first one correct
OptionsOf(questionIndex) == <<2 * questionIndex + 1, 2 * questionIndex + 2>>

\* a GameOption: the option's id (and text), and no IsCorrect
GameOption(oid) == [ID |-> oid]

\* the GameQuestion StartQuestion stores: no correctness flag in it
GameQuestion(questionIndex) ==
    [ID |-> QuestionID(questionIndex), TimeLimit |-> QuestionTimeLimit,
     Options |-> [k \in 1..2 |-> GameOption(OptionsOf(questionIndex)[k])],
     TimeLeft |-> QuestionTimeLimit]

\* the snapshot StartQuestion writes
StartQuestionState(gameState, questionIndex) ==
    [gameState EXCEPT !.CurrentQuestionIndex = questionIndex,
                      !.CurrentQuestion = GameQuestion(questionIndex)]

\* the snapshot NextQuestion writes when no question is left
FinishedState(gameState) ==
    [gameState EXCEPT !.Status = "finished",
                      !.CurrentQuestion = NilQuestion,
                      !.CurrentQuestionIndex = numQuestions]

\* the snapshot StartQuiz writes before the first question is started
StartQuizState(gameState) ==
    LET base == IF gameState = NilState
                THEN NewGameState("active", numQuestions)
                ELSE [gameState EXCEPT !.Status = "active",
                                       !.TotalQuestions = numQuestions]
    IN  [base EXCEPT !.Players = GamePlayers(players)]

\* a faulty variant of AnswerExists: the player and question arguments are swapped
AnswerExistsSwapped(playerID, questionID) ==
    \E a \in BagToSet(answers) :
        a.PlayerID = questionID /\ a.QuestionID = playerID

\* whether a game_answers row exists for (game, player, question)
AnswerExists(playerID, questionID) ==
    \E a \in BagToSet(answers) :
        a.PlayerID = playerID /\ a.QuestionID = questionID

\* the rows EndQuestion reads for a question
AnswersOf(questionID) ==
    {a \in BagToSet(answers) : a.QuestionID = questionID}

\* SubmitAnswer's update of the snapshot: the first player with that id
AddScore(gameState, playerID, points) ==
    LET hit == {i \in 1..Len(gameState.Players) :
                    gameState.Players[i].ID = playerID}
    IN  IF hit = {}
        THEN gameState
        ELSE LET i == CHOOSE k \in hit : \A j \in hit : k <= j
             IN  [gameState EXCEPT !.Players[i].Score = @ + points]

\* the players rows with one player's score raised (score = score + ?)
RaiseScore(rows, playerID, points) ==
    [i \in 1..Len(rows) |->
        IF rows[i].ID = playerID
        THEN [rows[i] EXCEPT !.Score = @ + points]
        ELSE rows[i]]

\* the orders "ORDER BY score DESC" may return the players rows in
Leaderboards ==
    {b \in [1..Len(players) -> 1..Len(players)] :
        /\ \A i, j \in 1..Len(players) : i # j => b[i] # b[j]
        /\ \A i, j \in 1..Len(players) :
              i < j => players[b[i]].Score >= players[b[j]].Score}

(***************************************************************************)
(* Hub.BroadcastToGame, as far as the session engine is concerned: the     *)
(* message is recorded and counted.                                        *)
(***************************************************************************)
Count(msg) ==
    CASE msg.type = "game_end" ->
            [sent EXCEPT !.game_end = Bump(@)]
      [] msg.type = "question_end" ->
            [sent EXCEPT !.question_end[msg.question_index] = Bump(@)]
      [] OTHER -> sent

BroadcastToGame(msg) ==
    /\ lastMsg' = msg
    /\ msgFlip' = 1 - msgFlip
    /\ sent' = Count(msg)

NoBroadcast == UNCHANGED <<sent, lastMsg, msgFlip>>

QuestionStartMsg(questionIndex) ==
    [type |-> "question_start", question_index |-> questionIndex,
     question |-> [id |-> QuestionID(questionIndex),
                   time_limit |-> QuestionTimeLimit,
                   options |-> GameQuestion(questionIndex).Options],
     total_questions |-> numQuestions]


GameEndMsg(board) ==
    [type |-> "game_end",
     final_leaderboard |-> [i \in 1..Len(players) |-> GamePlayer(players[board[i]])],
     total_questions |-> numQuestions]

NewTimer(questionIndex) ==
    [questionIndex |-> questionIndex, timeLeft |-> QuestionTimeLimit,
     pc |-> "tick", gameState |-> NilState]

(***************************************************************************)
(* Initial state: the quiz exists with its questions, no game started.     *)
(***************************************************************************)
HasState == cache # NilState
HasGame == game # NilGame

\* the writes to Redis fail: so only while the specification of the store
\* says it
StoreFails == "storeFails" \in DOMAIN sc /\ sc.storeFails

\* storeGameState(pin, state): the value of the key game:<pin> after it
storeGameState(state) == IF StoreFails THEN cache ELSE state

\* NewHub: no client registered, Run able to take the next event
NewHub == [clients |-> {}, blocked |-> FALSE]

GameInit ==
    /\ numQuestions \in 0..MaxQuestions
    /\ game = NilGame
    /\ players = <<>>
    /\ answers = EmptyBag
    /\ cache = NilState
    /\ timers = EmptyBag
    /\ inflight = EmptyBag
    /\ sent = [game_end |-> 0,
               question_end |-> [i \in 0..(MaxQuestions - 1) |-> 0]]
    /\ lastMsg = NoMsg
    /\ msgFlip = 0
    /\ resp = NoResp
    /\ hub = NewHub

Init == GameInit /\ sc = ScIdle

\* a faulty variant of CheckGameOwnership: any authenticated user passes
CheckGameOwnershipSkipped(userID) == userID \in Users

\* GameService.CheckGameOwnership, and the same query on quizzes (id and
\* user_id) at the head of StartGame and StartQuiz
CheckGameOwnership(userID) == userID = QuizOwner

(***************************************************************************)
(* POST /api/games: GameHandler.StartGame, GameService.StartGame.          *)
(* One session is modelled: the action is taken once.                      *)
(***************************************************************************)
StartGame(userID) ==
    /\ game = NilGame
    /\ IF ~CheckGameOwnership(userID)
       THEN /\ resp' = Resp("StartGame", "quiz not found")
            /\ UNCHANGED <<game, cache>>
       ELSE /\ game' = [Status |-> "waiting"]
            \* a failure of storeGameState is logged and nothing more
            /\ cache' = storeGameState(NewGameState("waiting", numQuestions))
            /\ resp' = Resp("StartGame", "")
    /\ UNCHANGED <<numQuestions, players, answers, timers, inflight>>
    /\ NoBroadcast

(***************************************************************************)
(* POST /api/games/:pin/start: GameHandler.StartQuiz, which calls          *)
(* GameService.StartQuiz and then GameService.StartQuestion(pin, 0).       *)
(***************************************************************************)
StartQuiz(userID) ==
    /\ UNCHANGED <<numQuestions, players, answers, inflight>>
    /\ IF game = NilGame
       THEN /\ resp' = Resp("StartQuiz", "game not found")
            /\ UNCHANGED <<game, cache, timers>>
            /\ NoBroadcast
       ELSE IF ~CheckGameOwnership(userID)
       THEN /\ resp' = Resp("StartQuiz", "unauthorized to start this game")
            /\ UNCHANGED <<game, cache, timers>>
            /\ NoBroadcast
       ELSE /\ game' = [game EXCEPT !.Status = "active"]
            /\ IF StoreFails
               THEN \* StartQuiz returns the failure of storeGameState
                    /\ resp' = Resp("StartQuiz", "failed to update game state")
                    /\ UNCHANGED <<cache, timers>>
                    /\ NoBroadcast
               ELSE IF 0 >= numQuestions
               THEN \* StartQuestion: question index out of range
                    /\ cache' = StartQuizState(cache)
                    /\ resp' = Resp("StartQuiz", "Failed to start first question")
                    /\ UNCHANGED timers
                    /\ NoBroadcast
               ELSE /\ BagSize(timers) < MaxTimers
                    /\ cache' = StartQuestionState(StartQuizState(cache), 0)
                    /\ BroadcastToGame(QuestionStartMsg(0))
                    /\ timers' = BagPut(timers, NewTimer(0))
                    /\ resp' = Resp("StartQuiz", "")

(***************************************************************************)
(* POST /api/games/:pin/next: GameHandler.NextQuestion, which calls        *)
(* CheckGameOwnership and GameService.NextQuestion (and through it         *)
(* StartQuestion).                                                         *)
(***************************************************************************)
NextQuestion(userID) ==
    /\ UNCHANGED <<numQuestions, players, answers, inflight>>
    /\ IF game = NilGame
       THEN /\ resp' = Resp("NextQuestion", "game not found")
            /\ UNCHANGED <<game, cache, timers>>
            /\ NoBroadcast
       ELSE IF ~CheckGameOwnership(userID)
       THEN /\ resp' = Resp("NextQuestion", "unauthorized to control this game")
            /\ UNCHANGED <<game, cache, timers>>
            /\ NoBroadcast
       ELSE IF cache = NilState
       THEN /\ resp' = Resp("NextQuestion", "game state not found")
            /\ UNCHANGED <<game, cache, timers>>
            /\ NoBroadcast
       ELSE LET nextQuestionIndex == cache.CurrentQuestionIndex + 1
            IN  IF nextQuestionIndex >= numQuestions
                THEN /\ game' = [game EXCEPT !.Status = "finished"]
                     \* a failure of storeGameState is logged and nothing more
                     /\ cache' = storeGameState(FinishedState(cache))
                     /\ \E board \in Leaderboards : BroadcastToGame(GameEndMsg(board))
                     /\ resp' = Resp("NextQuestion", "")
                     /\ UNCHANGED timers
                ELSE IF StoreFails
                THEN \* StartQuestion returns the failure of storeGameState
                     /\ resp' = Resp("NextQuestion", "failed to update game state")
                     /\ UNCHANGED <<game, cache, timers>>
                     /\ NoBroadcast
                ELSE /\ BagSize(timers) < MaxTimers
                     /\ cache' = StartQuestionState(cache, nextQuestionIndex)
                     /\ BroadcastToGame(QuestionStartMsg(nextQuestionIndex))
                     /\ timers' = BagPut(timers, NewTimer(nextQuestionIndex))
                     /\ resp' = Resp("NextQuestion", "")
                     /\ UNCHANGED game

(***************************************************************************)
(* POST /api/games/:pin/join: GameHandler.JoinGame, GameService.JoinGame   *)
(* and Hub.BroadcastPlayerUpdate.                                          *)
(***************************************************************************)
JoinGame(name) ==
    /\ UNCHANGED <<numQuestions, game, answers, timers, inflight>>
    /\ IF game = NilGame
       THEN /\ resp' = Resp("JoinGame", "game not found")
            /\ UNCHANGED <<players, cache>>
            /\ NoBroadcast
       ELSE IF game.Status # "waiting" /\ game.Status # "active"
       THEN /\ resp' = Resp("JoinGame", "cannot join")
            /\ UNCHANGED <<players, cache>>
            /\ NoBroadcast
       ELSE IF \E i \in 1..Len(players) : players[i].Name = name
       THEN /\ resp' = Resp("JoinGame", "player name already taken")
            /\ UNCHANGED <<players, cache>>
            /\ NoBroadcast
       ELSE LET player == [ID |-> Len(players) + 1, Name |-> name, Score |-> 0]
                gameState == IF cache = NilState
                             THEN NewGameState(game.Status, 0)
                             ELSE cache
            IN  /\ Len(players) < MaxPlayers
                /\ players' = Append(players, player)
                \* the result of storeGameState is not looked at
                /\ cache' = storeGameState([gameState EXCEPT
                                !.Players = Append(@, GamePlayer(player))])
                /\ BroadcastToGame([type |-> "player_update",
                                    action |-> "joined", player |-> player])
                /\ resp' = Resp("JoinGame", "")


\* a faulty variant of GameIsActive: only a finished game is refused
GameIsNotFinished == game.Status # "finished"

\* SubmitAnswer's status check on the games row
GameIsActive == game.Status = "active"

(***************************************************************************)
(* POST /api/games/:pin/answer: GameHandler.SubmitAnswer and               *)
(* GameService.SubmitAnswer, in four steps: the checks and the score       *)
(* (reads), the two database writes, the read of the snapshot, and the     *)
(* write of the snapshot with the broadcast.                               *)
(***************************************************************************)
SubmitAnswerCheck(playerID, questionID, optionID, reqTimeSpent) ==
    /\ UNCHANGED <<numQuestions, game, players, answers, cache, timers>>
    /\ NoBroadcast
    /\ IF game = NilGame
       THEN /\ resp' = Resp("SubmitAnswer", "game not found")
            /\ UNCHANGED inflight
       ELSE IF ~GameIsActive
       THEN /\ resp' = Resp("SubmitAnswer", "game is not active")
            /\ UNCHANGED inflight
       ELSE IF AnswerExists(playerID, questionID)
       THEN /\ resp' = Resp("SubmitAnswer", "answer already submitted")
            /\ UNCHANGED inflight
       ELSE IF ~QuestionExists(questionID)
       THEN /\ resp' = Resp("SubmitAnswer", "question not found")
            /\ UNCHANGED inflight
       ELSE IF ~OptionExists(optionID)
       THEN /\ resp' = Resp("SubmitAnswer", "option not found")
            /\ UNCHANGED inflight
       ELSE LET timeSpent == DefaultTimeSpent(reqTimeSpent, QuestionTimeLimit)
                points == calculatePoints(timeSpent, QuestionTimeLimit,
                                          OptionIsCorrect(optionID))
            IN  /\ BagSize(inflight) < MaxInFlight
                /\ BagSize(answers) + BagSize(inflight) < MaxAnswers
                /\ inflight' = BagPut(inflight,
                        [PlayerID |-> playerID, QuestionID |-> questionID,
                         OptionID |-> optionID,
                         IsCorrect |-> OptionIsCorrect(optionID),
                         TimeSpent |-> timeSpent, Points |-> points,
                         pc |-> "create", gameState |-> NilState])
                /\ UNCHANGED resp

\* the game_answers row a request creates
GameAnswer(r) ==
    [PlayerID |-> r.PlayerID, QuestionID |-> r.QuestionID,
     OptionID |-> r.OptionID, IsCorrect |-> r.IsCorrect,
     TimeSpent |-> r.TimeSpent, Points |-> r.Points]

SubmitAnswerCreate(r) ==
    /\ r.pc = "create"
    /\ answers' = BagPut(answers, GameAnswer(r))
    /\ players' = RaiseScore(players, r.PlayerID, r.Points)
    /\ inflight' = BagPut(BagTake(inflight, r), [r EXCEPT !.pc = "getState"])
    /\ UNCHANGED <<numQuestions, game, cache, timers, resp>>
    /\ NoBroadcast

SubmitAnswerGetState(r) ==
    /\ r.pc = "getState"
    /\ inflight' = BagPut(BagTake(inflight, r),
                          [r EXCEPT !.pc = "store", !.gameState = cache])
    /\ UNCHANGED <<numQuestions, game, players, answers, cache, timers, resp>>
    /\ NoBroadcast

SubmitAnswerStore(r) ==
    /\ r.pc = "store"
    /\ cache' = IF r.gameState = NilState
                THEN cache
                ELSE storeGameState(AddScore(r.gameState, r.PlayerID, r.Points))
    /\ BroadcastToGame([type |-> "score_update", players |-> players,
                        player_id |-> r.PlayerID, points_earned |-> r.Points])
    /\ resp' = Resp("SubmitAnswer", "")
    /\ inflight' = BagTake(inflight, r)
    /\ UNCHANGED <<numQuestions, game, players, answers, timers>>

(***************************************************************************)
(* GameService.runQuestionTimer: each tick reads the snapshot, writes it   *)
(* back with the new time left and broadcasts timer_update; at zero the    *)
(* goroutine calls EndQuestion and ends.                                   *)
(***************************************************************************)
TimerWrite(gameState, timeLeft) ==
    IF gameState # NilState /\ gameState.CurrentQuestion # NilQuestion
    THEN [gameState EXCEPT !.CurrentQuestion.TimeLeft = timeLeft]
    ELSE cache

TimerUpdateMsg(questionIndex, timeLeft) ==
    [type |-> "timer_update", question_index |-> questionIndex,
     time_left |-> timeLeft]

\* one tick with nothing else running between its read and its write
TimerTick(t) ==
    /\ t.pc = "tick"
    /\ t.timeLeft > 0
    /\ cache' = storeGameState(TimerWrite(cache, t.timeLeft - 1))
    /\ BroadcastToGame(TimerUpdateMsg(t.questionIndex, t.timeLeft - 1))
    /\ timers' = BagPut(BagTake(timers, t), [t EXCEPT !.timeLeft = @ - 1])
    /\ UNCHANGED <<numQuestions, game, players, answers, inflight, resp>>

\* the tick's read of the snapshot
TimerRead(t) ==
    /\ t.pc = "tick"
    /\ t.timeLeft > 0
    /\ timers' = BagPut(BagTake(timers, t),
                        [t EXCEPT !.timeLeft = @ - 1, !.pc = "store",
                                  !.gameState = cache])
    /\ UNCHANGED <<numQuestions, game, players, answers, cache, inflight, resp>>
    /\ NoBroadcast

\* the tick's write of the snapshot it read, and its broadcast
TimerStore(t) ==
    /\ t.pc = "store"
    /\ cache' = storeGameState(TimerWrite(t.gameState, t.timeLeft))
    /\ BroadcastToGame(TimerUpdateMsg(t.questionIndex, t.timeLeft))
    /\ timers' = BagPut(BagTake(timers, t),
                        [t EXCEPT !.pc = "tick", !.gameState = NilState])
    /\ UNCHANGED <<numQuestions, game, players, answers, inflight, resp>>

\* the option of the question EndQuestion finds with IsCorrect set
CorrectOption(questionIndex) == 2 * questionIndex + 1

QuestionEndMsg(questionIndex) ==
    [type |-> "question_end",
     question_index |-> questionIndex,
     correct_option |-> CorrectOption(questionIndex),
     answers |-> AnswersOf(QuestionID(questionIndex)),
     total_questions |-> numQuestions]

\* a faulty variant of EndQuestion: the range check is off by one
EndQuestionOffByOne(questionIndex) ==
    IF game = NilGame \/ questionIndex + 1 >= numQuestions
    THEN NoBroadcast
    ELSE BroadcastToGame(QuestionEndMsg(questionIndex))

\* a faulty variant of EndQuestion: no answer row is taken for an error
EndQuestionNeedsAnswers(questionIndex) ==
    IF \/ game = NilGame
       \/ questionIndex >= numQuestions
       \/ AnswersOf(QuestionID(questionIndex)) = {}
    THEN NoBroadcast
    ELSE BroadcastToGame(QuestionEndMsg(questionIndex))

\* GameService.EndQuestion, called by the timer at zero
EndQuestion(questionIndex) ==
    IF game = NilGame \/ questionIndex >= numQuestions
    THEN NoBroadcast
    ELSE BroadcastToGame(QuestionEndMsg(questionIndex))

TimerExpire(t) ==
    /\ t.pc = "tick"
    /\ t.timeLeft = 0
    /\ EndQuestion(t.questionIndex)
    /\ timers' = BagTake(timers, t)
    /\ UNCHANGED <<numQuestions, game, players, answers, cache, inflight, resp>>

(***************************************************************************)
(* GameService.GetCurrentGameState (the resync read behind                 *)
(* Hub.SendGameStateSync) and the expiry of the Redis key.                 *)
(***************************************************************************)
\* the GameState the call returns
CurrentGameState ==
    IF cache # NilState
    THEN [cache EXCEPT !.Players = GamePlayers(players)]
    ELSE [NewGameState(game.Status, numQuestions) EXCEPT
              !.Players = GamePlayers(players)]

\* a faulty variant of GetCurrentGameState: a missing snapshot is an error
GetCurrentGameStateNeedsCache ==
    /\ IF cache = NilState
       THEN resp' = Resp("GetCurrentGameState", "game state not found")
       ELSE resp' = Resp("GetCurrentGameState", "")
    /\ UNCHANGED <<numQuestions, game, players, answers, cache, timers, inflight>>
    /\ NoBroadcast

GetCurrentGameState ==
    /\ IF cache = NilState /\ game = NilGame
       THEN /\ resp' = Resp("GetCurrentGameState", "game not found")
            /\ UNCHANGED cache
       ELSE /\ resp' = Resp("GetCurrentGameState", "")
            /\ cache' = IF cache = NilState
                        THEN storeGameState(CurrentGameState)
                        ELSE cache
    /\ UNCHANGED <<numQuestions, game, players, answers, timers, inflight>>
    /\ NoBroadcast

CacheExpire ==
    /\ cache # NilState
    /\ cache' = NilState
    /\ UNCHANGED <<numQuestions, game, players, answers, timers, inflight, resp>>
    /\ NoBroadcast

(***************************************************************************)
(* The session specification: the host's control actions, joins, the       *)
(* timers, resync reads and the expiry of the snapshot.                    *)
(***************************************************************************)
Next ==
    \/ \E u \in Users : StartGame(u) /\ UNCHANGED <<sc, hub>>
    \/ \E u \in Users : StartQuiz(u) /\ UNCHANGED <<sc, hub>>
    \/ \E u \in Users : NextQuestion(u) /\ UNCHANGED <<sc, hub>>
    \/ \E n \in Names : JoinGame(n) /\ UNCHANGED <<sc, hub>>
    \/ \E t \in BagToSet(timers) : TimerTick(t) /\ UNCHANGED <<sc, hub>>
    \/ \E t \in BagToSet(timers) : TimerExpire(t) /\ UNCHANGED <<sc, hub>>
    \/ GetCurrentGameState /\ UNCHANGED <<sc, hub>>
    \/ CacheExpire /\ UNCHANGED <<sc, hub>>

Spec == Init /\ [][Next]_vars

(***************************************************************************)
(* The answer specification: a session in which players submit answers,    *)
(* concurrently with each other and with the host's actions.               *)
(***************************************************************************)
AnswerNext ==
    \/ StartGame(QuizOwner) /\ UNCHANGED <<sc, hub>>
    \/ StartQuiz(QuizOwner) /\ UNCHANGED <<sc, hub>>
    \/ NextQuestion(QuizOwner) /\ UNCHANGED <<sc, hub>>
    \/ \E n \in Names : JoinGame(n) /\ UNCHANGED <<sc, hub>>
    \/ \E p \in 1..Len(players), q \in 1..(MaxQuestions + 1),
          o \in OptionInputs, ts \in TimeSpentInputs :
            SubmitAnswerCheck(p, q, o, ts) /\ UNCHANGED <<sc, hub>>
    \/ \E r \in BagToSet(inflight) : SubmitAnswerCreate(r) /\ UNCHANGED <<sc, hub>>
    \/ \E r \in BagToSet(inflight) : SubmitAnswerGetState(r) /\ UNCHANGED <<sc, hub>>
    \/ \E r \in BagToSet(inflight) : SubmitAnswerStore(r) /\ UNCHANGED <<sc, hub>>

AnswerSpec == Init /\ [][AnswerNext]_vars

(***************************************************************************)
(* The timer specification: the host's calls and the timer goroutines,     *)
(* each of which the scheduler and its ticker let run: a timer that can    *)
(* step eventually steps.                                                  *)
(***************************************************************************)
TimerNext ==
    \/ StartGame(QuizOwner) /\ UNCHANGED <<sc, hub>>
    \/ StartQuiz(QuizOwner) /\ UNCHANGED <<sc, hub>>
    \/ NextQuestion(QuizOwner) /\ UNCHANGED <<sc, hub>>
    \/ \E t \in BagToSet(timers) : TimerTick(t) /\ UNCHANGED <<sc, hub>>
    \/ \E t \in BagToSet(timers) : TimerExpire(t) /\ UNCHANGED <<sc, hub>>

\* a step of a timer of question questionIndex with timeLeft seconds left
TimerStep(questionIndex, timeLeft) ==
    \E t \in BagToSet(timers) :
        /\ t.questionIndex = questionIndex
        /\ t.timeLeft = timeLeft
        /\ (TimerTick(t) \/ TimerExpire(t))
        /\ UNCHANGED <<sc, hub>>

TimerFairness ==
    \A questionIndex \in 0..(MaxQuestions - 1), timeLeft \in 0..QuestionTimeLimit :
        WF_vars(TimerStep(questionIndex, timeLeft))

TimerSpec == Init /\ [][TimerNext]_vars /\ TimerFairness

(***************************************************************************)
(* The hub: GET /ws/:gamePin/:playerID (validatePlayerAccess, then         *)
(* Hub.RegisterClient) and the unregister case of Hub.Run, taken when a    *)
(* connection's readPump ends.                                             *)
(***************************************************************************)
\* users.id of each user; the players' ids are those of another table
UserID == [u \in Users |-> IF u = QuizOwner THEN 1 ELSE 2]

\* the playerID path parameter a connection attempt may carry
WsPlayerIDs == 0..MaxPlayers

\* validatePlayerAccess: a player of the game, or the quiz's user_id
PlayerHasAccess(playerID) ==
    /\ HasGame
    /\ \/ \E i \in 1..Len(players) : players[i].ID = playerID
       \/ UserID[QuizOwner] = playerID

\* a Client. creator is no field of the code's Client: it records whether
\* the connection was opened by the quiz creator's page
Client(playerID, creator) == [playerID |-> playerID, creator |-> creator]

RegisterClient(playerID, creator) ==
    /\ ~hub.blocked
    /\ IF ~PlayerHasAccess(playerID)
       THEN /\ resp' = Resp("ws", "Player not found in game")
            /\ UNCHANGED hub
       ELSE /\ Cardinality(hub.clients) < MaxClients
            /\ resp' = Resp("ws", "")
            /\ hub' = [hub EXCEPT !.clients = @ \cup {Client(playerID, creator)}]
    /\ UNCHANGED <<numQuestions, game, players, answers, cache, timers, inflight>>
    /\ NoBroadcast

\* GameService.UpdateGameStatus, which Hub.Run calls and no file defines:
\* taken to set the status of the games row
UpdateGameStatus(status) == game' = [game EXCEPT !.Status = status]

\* Hub.Run, case client := <-h.unregister. For playerID 0 it updates the
\* game and calls BroadcastToGame while it holds h.mutex for writing:
\* BroadcastToGame's RLock then never returns and nothing is sent
UnregisterClient(client) ==
    /\ ~hub.blocked
    /\ client \in hub.clients
    /\ IF client.playerID = 0
       THEN /\ IF HasGame THEN UpdateGameStatus("finished") ELSE UNCHANGED game
            /\ hub' = [clients |-> hub.clients \ {client}, blocked |-> HasGame]
       ELSE /\ hub' = [hub EXCEPT !.clients = @ \ {client}]
            /\ UNCHANGED game
    /\ UNCHANGED <<numQuestions, players, answers, cache, timers, inflight, resp>>
    /\ NoBroadcast

HubNext ==
    \/ StartGame(QuizOwner) /\ UNCHANGED <<sc, hub>>
    \/ StartQuiz(QuizOwner) /\ UNCHANGED <<sc, hub>>
    \/ NextQuestion(QuizOwner) /\ UNCHANGED <<sc, hub>>
    \/ \E n \in Names : JoinGame(n) /\ UNCHANGED <<sc, hub>>
    \/ \E playerID \in WsPlayerIDs, creator \in BOOLEAN :
          /\ creator => playerID \in {0, UserID[QuizOwner]}
          /\ RegisterClient(playerID, creator)
          /\ UNCHANGED sc
    \/ \E client \in hub.clients : UnregisterClient(client) /\ UNCHANGED sc

HubSpec == Init /\ [][HubNext]_vars


(***************************************************************************)
(* The hub's delivery: Hub.RegisterClient, the loop of Hub.BroadcastToGame *)
(* and Hub.BroadcastPlayerUpdate one client at a time, Client.writePump,   *)
(* Client.handleMessage and Hub.SendGameStateSync. A client here is a      *)
(* record with its id, gamePin, playerID and send channel; sc holds the    *)
(* broadcasts that are inside their loop (they hold h.mutex for reading),  *)
(* the clients whose send channel was closed while their readPump still    *)
(* runs, and whether a goroutine has panicked (a broadcast that panicked   *)
(* stays in sc.calls with pc "panic": it never returns).                   *)
(***************************************************************************)
\* the pin of the modelled game, the pin of another live game, and the
\* gamePin arguments a broadcast may be given
GamePin == "ab12cd"
OtherPin == "ef34ab"
GamePins == {GamePin, OtherPin}
BroadcastPins == {GamePin, "AB12CD", OtherPin}

\* strings.ToLower and strings.EqualFold on these pins
ToLower(pin) == IF pin = "AB12CD" THEN "ab12cd" ELSE pin
EqualFold(a, b) == ToLower(a) = ToLower(b)

\* the message type of the broadcasts made here; BroadcastPlayerUpdate runs
\* the same loop with type "player_update"
BroadcastTypes == {"timer_update"}

\* the playerID path parameter of the connections made here: the id of the
\* quiz's owner, which validatePlayerAccess accepts
FanoutPlayerIDs == {UserID[QuizOwner]}

\* the client messages handleMessage answers
ClientMessages == {"ping", "player_ready", "request_game_state"}

FanoutIdle == [calls |-> {}, closed |-> {}, panicked |-> FALSE]

FanoutInit ==
    /\ GameInit
    /\ numQuestions = 1
    /\ sc = FanoutIdle

\* what the fanout actions leave alone
FanoutFrame ==
    UNCHANGED <<numQuestions, game, players, answers, timers, inflight,
                sent, lastMsg, msgFlip, resp>>

\* the Client RegisterClient builds: send is make(chan []byte, 256), empty
HubClient(id, gamePin, playerID) ==
    [id |-> id, gamePin |-> gamePin, playerID |-> playerID,
     creator |-> FALSE, send |-> <<>>]

ClientIDs == {c.id : c \in hub.clients \cup sc.closed}

\* a send on client.send that does not wait: there is room in the channel
HasRoom(client) == Len(client.send) < SendCap

Enqueue(client, data) == [client EXCEPT !.send = Append(@, data)]

\* the client after close(client.send); what the channel still holds is
\* left out
Closed(client) == [client EXCEPT !.send = <<>>]

\* Hub.RegisterClient and case client := <-h.register of Hub.Run, which
\* takes h.mutex for writing: no broadcast is inside its loop
HubRegister(id, gamePin, playerID) ==
    /\ ~sc.panicked
    /\ sc.calls = {}
    /\ id \notin ClientIDs
    /\ Cardinality(hub.clients) < MaxClients
    /\ hub' = [hub EXCEPT !.clients = @ \cup {HubClient(id, gamePin, playerID)}]
    /\ UNCHANGED <<sc, cache>>
    /\ FanoutFrame

\* case client := <-h.unregister of Hub.Run, sent by readPump when it ends
HubUnregister(client) ==
    /\ ~sc.panicked
    /\ sc.calls = {}
    /\ IF client \in hub.clients
       THEN /\ UnregisterClient(client)
            /\ UNCHANGED sc
       ELSE /\ client \in sc.closed
            /\ sc' = [sc EXCEPT !.closed = @ \ {client}]
            /\ UNCHANGED <<hub, game, cache>>
            /\ FanoutFrame

\* Client.writePump: one message is taken from client.send and written
writePump(client) ==
    /\ ~sc.panicked
    /\ client \in hub.clients
    /\ client.send # <<>>
    /\ hub' = [hub EXCEPT !.clients =
                  (@ \ {client}) \cup {[client EXCEPT !.send = Tail(@)]}]
    /\ UNCHANGED <<sc, cache>>
    /\ FanoutFrame

\* the data BroadcastToGame marshals: the type, and a payload of that game
BroadcastData(gamePin, messageType) ==
    [type |-> messageType, game |-> ToLower(gamePin)]

\* BroadcastToGame / BroadcastPlayerUpdate up to h.mutex.RLock() and the
\* start of range h.clients
BroadcastBegin(n, gamePin, messageType) ==
    /\ ~sc.panicked
    /\ Cardinality(sc.calls) < MaxCalls
    /\ \A call \in sc.calls : call.n # n
    /\ sc' = [sc EXCEPT !.calls = @ \cup
                 {[n |-> n, gamePin |-> gamePin,
                   data |-> BroadcastData(gamePin, messageType),
                   todo |-> {c.id : c \in hub.clients},
                   delivered |-> {}, pc |-> "range"]}]
    /\ UNCHANGED <<hub, cache>>
    /\ FanoutFrame

\* one iteration of the loop on a client that is still in h.clients
VisitRegistered(call, client) ==
    LET rest == [call EXCEPT !.todo = @ \ {client.id}] IN
    IF ~EqualFold(client.gamePin, call.gamePin)
    THEN /\ sc' = [sc EXCEPT !.calls = (@ \ {call}) \cup {rest}]
         /\ UNCHANGED hub
    ELSE IF HasRoom(client)
    THEN /\ hub' = [hub EXCEPT !.clients =
                       (@ \ {client}) \cup {Enqueue(client, call.data)}]
         /\ sc' = [sc EXCEPT !.calls = (@ \ {call}) \cup
                      {[rest EXCEPT !.delivered = @ \cup {client.id}]}]
    ELSE \* default: close(client.send); delete(h.clients, client)
         /\ hub' = [hub EXCEPT !.clients = @ \ {client}]
         /\ sc' = [sc EXCEPT !.calls = (@ \ {call}) \cup {rest},
                             !.closed = @ \cup {Closed(client)}]

\* one iteration on a client that another goroutine has closed and deleted
\* since this loop began. Both hold the mutex for reading only, so the
\* delete races with this range: the client is passed over, or it is
\* yielded and the send on its closed channel panics
VisitClosed(call, client) ==
    /\ UNCHANGED hub
    /\ \/ sc' = [sc EXCEPT !.calls =
                    (@ \ {call}) \cup {[call EXCEPT !.todo = @ \ {client.id}]}]
       \/ /\ EqualFold(client.gamePin, call.gamePin)
          /\ sc' = [sc EXCEPT !.panicked = TRUE,
                              !.calls = (@ \ {call}) \cup
                                        {[call EXCEPT !.pc = "panic"]}]

BroadcastVisit(call, id) ==
    /\ ~sc.panicked
    /\ call \in sc.calls
    /\ id \in call.todo
    /\ IF \E c \in hub.clients : c.id = id
       THEN VisitRegistered(call, CHOOSE c \in hub.clients : c.id = id)
       ELSE VisitClosed(call, CHOOSE c \in sc.closed : c.id = id)
    /\ UNCHANGED cache
    /\ FanoutFrame

\* the loop is over: h.mutex.RUnlock() and return
BroadcastReturn(call) ==
    /\ ~sc.panicked
    /\ call \in sc.calls
    /\ call.todo = {}
    /\ sc' = [sc EXCEPT !.calls = @ \ {call}]
    /\ UNCHANGED <<hub, cache>>
    /\ FanoutFrame

\* the message SendGameStateSync marshals for a client of the modelled game
GameStateSyncMsg ==
    IF HasGame
    THEN [type |-> "game_state_sync",
          game_status |-> CurrentGameState.Status,
          current_question_index |-> CurrentGameState.CurrentQuestionIndex,
          current_question |-> CurrentGameState.CurrentQuestion,
          players |-> CurrentGameState.Players]
    ELSE [type |-> "game_state_sync", game_status |-> "",
          current_question_index |-> 0, current_question |-> NilQuestion]

PongMsg == [type |-> "pong"]

\* Hub.SendGameStateSync(client, "", 0, nil): GetCurrentGameState, then a
\* send that does not wait; when the channel is full the client is closed
\* and deleted, with no lock held
SendGameStateSync(client) ==
    /\ cache' = IF HasGame /\ ~HasState
                THEN storeGameState(CurrentGameState)
                ELSE cache
    /\ IF client \in sc.closed
       THEN /\ sc' = [sc EXCEPT !.panicked = TRUE]
            /\ UNCHANGED hub
       ELSE IF HasRoom(client)
       THEN /\ hub' = [hub EXCEPT !.clients =
                          (@ \ {client}) \cup {Enqueue(client, GameStateSyncMsg)}]
            /\ UNCHANGED sc
       ELSE /\ hub' = [hub EXCEPT !.clients = @ \ {client}]
            /\ sc' = [sc EXCEPT !.closed = @ \cup {Closed(client)}]

\* Client.handleMessage, run by the client's readPump, which runs until its
\* socket fails: also after the client's send channel was closed
handleMessage(client, messageType) ==
    /\ ~sc.panicked
    /\ client \in hub.clients \cup sc.closed
    /\ IF messageType = "ping"
       THEN \* c.send <- data: waits for room, panics on a closed channel
            /\ UNCHANGED cache
            /\ IF client \in sc.closed
               THEN /\ sc' = [sc EXCEPT !.panicked = TRUE]
                    /\ UNCHANGED hub
               ELSE /\ HasRoom(client)
                    /\ hub' = [hub EXCEPT !.clients =
                                  (@ \ {client}) \cup {Enqueue(client, PongMsg)}]
                    /\ UNCHANGED sc
       ELSE /\ client.gamePin = GamePin
            /\ SendGameStateSync(client)
    /\ FanoutFrame

FanoutNext ==
    \/ StartGame(QuizOwner) /\ ~sc.panicked /\ UNCHANGED <<sc, hub>>
    \/ \E id \in 1..MaxClients, gamePin \in GamePins, playerID \in FanoutPlayerIDs :
          \* the endpoint registers a connection once validatePlayerAccess
          \* has found the game
          HasGame /\ HubRegister(id, gamePin, playerID)
    \/ \E client \in hub.clients \cup sc.closed : HubUnregister(client)
    \/ \E client \in hub.clients : writePump(client)
    \/ \E n \in 1..MaxCalls, gamePin \in BroadcastPins, t \in BroadcastTypes :
          BroadcastBegin(n, gamePin, t)
    \/ \E call \in sc.calls, id \in 1..MaxClients : BroadcastVisit(call, id)
    \/ \E call \in sc.calls : BroadcastReturn(call)
    \/ \E client \in hub.clients \cup sc.closed, t \in ClientMessages :
          handleMessage(client, t)

FanoutSpec == FanoutInit /\ [][FanoutNext]_vars

\* broadcast n is inside BroadcastToGame, between RLock and RUnlock
InsideBroadcast(n) == \E call \in sc.calls : call.n = n

\* the next step of broadcast n: an iteration of its loop, or its return
BroadcastStep(n) ==
    \E call \in sc.calls :
        /\ call.n = n
        /\ \/ \E id \in 1..MaxClients : BroadcastVisit(call, id)
           \/ BroadcastReturn(call)

\* the goroutine of a broadcast is scheduled: when it can take its next
\* step it eventually takes it
FanoutFairness == \A n \in 1..MaxCalls : WF_vars(BroadcastStep(n))

FanoutLiveSpec == FanoutSpec /\ FanoutFairness

(***************************************************************************)
(* The pins: GameService.StartGame called again and again, each call with  *)
(* the pin its generatePin draws, and the expiry of the Redis keys. Here   *)
(* sc holds the games table (rows in id order, pin under a unique index)   *)
(* and the Redis keys game:<pin>.                                          *)
(***************************************************************************)
\* the values generatePin may return: six hex digits
PinValues == {"ab12cd", "ef34ab", "0f9e1d"}

PinInit ==
    /\ GameInit
    /\ sc = [games |-> <<>>, redis |-> [pin \in PinValues |-> NilState]]

\* the pin is in the games table: the unique index refuses a second row
PinTaken(pin) == \E k \in 1..Len(sc.games) : sc.games[k].Pin = pin

\* the GameState StartGame stores for the game with that id
FirstGameState(id) == [GameID |-> id] @@ NewGameState("waiting", numQuestions)

\* StartGame(userID, req) for the quiz of QuizOwner, pin being the value
\* generatePin returns
StartGameWithPin(userID, pin) ==
    /\ Len(sc.games) < MaxGames
    /\ IF ~CheckGameOwnership(userID)
       THEN /\ resp' = Resp("StartGame", "quiz not found")
            /\ UNCHANGED sc
       ELSE IF PinTaken(pin)
       THEN \* s.db.Create(&game) fails on the unique index: return nil, err
            /\ resp' = Resp("StartGame", "duplicate key value violates unique constraint")
            /\ UNCHANGED sc
       ELSE LET id == Len(sc.games) + 1 IN
            /\ sc' = [games |-> Append(sc.games,
                                       [ID |-> id, Pin |-> pin, Status |-> "waiting"]),
                      redis |-> [sc.redis EXCEPT ![ToLower(pin)] = FirstGameState(id)]]
            /\ resp' = Resp("StartGame", "")
    /\ UNCHANGED <<numQuestions, game, players, answers, cache, timers, inflight,
                   sent, lastMsg, msgFlip, hub>>

\* the key game:<pin> reaches its expiry of two hours
PinKeyExpire(pin) ==
    /\ sc.redis[pin] # NilState
    /\ sc' = [sc EXCEPT !.redis[pin] = NilState]
    /\ UNCHANGED gameVars

PinNext ==
    \/ \E u \in Users, pin \in PinValues : StartGameWithPin(u, pin)
    \/ \E pin \in PinValues : PinKeyExpire(pin)

PinSpec == PinInit /\ [][PinNext]_vars

(***************************************************************************)
(* The joins: GameService.JoinGame in its two steps, the queries that      *)
(* check the game and the name, and the creation of the players row with   *)
(* the update of the snapshot; requests run side by side. Here sc holds    *)
(* the names of the requests that have passed their checks.                *)
(***************************************************************************)
JoinInit ==
    /\ GameInit
    /\ sc = [joins |-> EmptyBag]

NameTaken(name) == \E i \in 1..Len(players) : players[i].Name = name

\* JoinGame up to the name check: the game by pin, its status, and a
\* player of the game with that name
JoinGameCheck(name) ==
    /\ IF game = NilGame
       THEN /\ resp' = Resp("JoinGame", "game not found")
            /\ UNCHANGED sc
       ELSE IF game.Status # "waiting" /\ game.Status # "active"
       THEN /\ resp' = Resp("JoinGame", "cannot join")
            /\ UNCHANGED sc
       ELSE IF NameTaken(name)
       THEN /\ resp' = Resp("JoinGame", "player name already taken")
            /\ UNCHANGED sc
       ELSE /\ BagSize(sc.joins) < MaxInFlight
            /\ sc' = [sc EXCEPT !.joins = BagPut(@, name)]
            /\ UNCHANGED resp
    /\ UNCHANGED <<numQuestions, game, players, answers, cache, timers, inflight, hub>>
    /\ NoBroadcast

\* JoinGame from s.db.Create(&player) on, and the handler's
\* BroadcastPlayerUpdate; players has no unique index on game_id and name
JoinGameCreate(name) ==
    /\ BagIn(name, sc.joins)
    /\ Len(players) < MaxPlayers
    /\ LET player == [ID |-> Len(players) + 1, Name |-> name, Score |-> 0]
           gameState == IF cache = NilState
                        THEN NewGameState(game.Status, 0)
                        ELSE cache
       IN  /\ players' = Append(players, player)
           /\ cache' = storeGameState(
                  [gameState EXCEPT !.Players = Append(@, GamePlayer(player))])
           /\ BroadcastToGame([type |-> "player_update",
                               action |-> "joined", player |-> player])
    /\ resp' = Resp("JoinGame", "")
    /\ sc' = [sc EXCEPT !.joins = BagTake(@, name)]
    /\ UNCHANGED <<numQuestions, game, answers, timers, inflight, hub>>

JoinNext ==
    \/ StartGame(QuizOwner) /\ UNCHANGED <<sc, hub>>
    \/ StartQuiz(QuizOwner) /\ UNCHANGED <<sc, hub>>
    \/ NextQuestion(QuizOwner) /\ UNCHANGED <<sc, hub>>
    \/ \E name \in Names : JoinGameCheck(name)
    \/ \E name \in Names : JoinGameCreate(name)

JoinSpec == JoinInit /\ [][JoinNext]_vars

(***************************************************************************)
(* The store: the host's control actions and the joins while the writes to *)
(* Redis may fail (storeGameState returns an error and the key keeps its   *)
(* value) and work again. Here sc says whether they fail.                  *)
(***************************************************************************)
StoreInit ==
    /\ GameInit
    /\ sc = [storeFails |-> FALSE]

\* redis.Set begins to fail, or works again
StoreChange ==
    /\ sc' = [sc EXCEPT !.storeFails = ~@]
    /\ UNCHANGED gameVars

StoreNext ==
    \/ StartGame(QuizOwner) /\ UNCHANGED <<sc, hub>>
    \/ StartQuiz(QuizOwner) /\ UNCHANGED <<sc, hub>>
    \/ NextQuestion(QuizOwner) /\ UNCHANGED <<sc, hub>>
    \/ \E n \in Names : JoinGame(n) /\ UNCHANGED <<sc, hub>>
    \/ \E t \in BagToSet(timers) : TimerTick(t) /\ UNCHANGED <<sc, hub>>
    \/ StoreChange

StoreSpec == StoreInit /\ [][StoreNext]_vars

(***************************************************************************)
(* The scoring specification: one scoring request, either given to         *)
(* calculatePoints as it is or taken through SubmitAnswer's scoring path   *)
(* (the default for a zero time_spent, then calculatePoints).              *)
(***************************************************************************)
ScoreRequests ==
    [pc : {"request"},
     reqTimeSpent : (-MaxTimeLimit)..(2 * MaxTimeLimit),
     timeSpent : {0},
     timeLimit : 1..MaxTimeLimit,
     isCorrect : BOOLEAN,
     points : {0}]

ScoreInit ==
    /\ GameInit
    /\ numQuestions = 0
    /\ sc \in ScoreRequests

ScoreCalculate ==
    /\ sc.pc = "request"
    /\ sc' = [sc EXCEPT !.pc = "calculated",
                        !.timeSpent = sc.reqTimeSpent,
                        !.points = calculatePoints(sc.reqTimeSpent, sc.timeLimit,
                                                   sc.isCorrect)]

ScoreSubmit ==
    /\ sc.pc = "request"
    /\ LET timeSpent == DefaultTimeSpent(sc.reqTimeSpent, sc.timeLimit)
       IN  sc' = [sc EXCEPT !.pc = "submitted",
                            !.timeSpent = timeSpent,
                            !.points = calculatePoints(timeSpent, sc.timeLimit,
                                                       sc.isCorrect)]

ScoreNext ==
    \/ ScoreCalculate /\ UNCHANGED gameVars
    \/ ScoreSubmit /\ UNCHANGED gameVars

ScoreSpec == ScoreInit /\ [][ScoreNext]_vars

(***************************************************************************)
(* The stored-limit specification: SubmitAnswer's scoring path on a        *)
(* question whose time_limit column holds any integer, zero and negative   *)
(* ones included. The integer division of calculatePoints panics on a      *)
(* zero divisor.                                                           *)
(***************************************************************************)
StoredLimitRequests ==
    [pc : {"request"},
     reqTimeSpent : (-MaxTimeLimit)..(2 * MaxTimeLimit),
     timeSpent : {0},
     timeLimit : (-MaxTimeLimit)..MaxTimeLimit,
     isCorrect : BOOLEAN,
     points : {0}]

StoredLimitInit ==
    /\ GameInit
    /\ numQuestions = 0
    /\ sc \in StoredLimitRequests

\* calculatePoints reaches 50*(timeLimit-timeSpent)/timeLimit with a zero
\* divisor: the wrong-answer return comes first
DividesByZero(timeLimit, isCorrect) == isCorrect /\ timeLimit = 0

StoredLimitSubmit ==
    IF DividesByZero(sc.timeLimit, sc.isCorrect)
    THEN /\ sc.pc = "request"
         /\ sc' = [sc EXCEPT !.pc = "panic",
                             !.timeSpent = DefaultTimeSpent(sc.reqTimeSpent,
                                                            sc.timeLimit)]
    ELSE ScoreSubmit

StoredLimitNext == StoredLimitSubmit /\ UNCHANGED gameVars

StoredLimitSpec == StoredLimitInit /\ [][StoredLimitNext]_vars

(***************************************************************************)
(* The outsider specification: a session with one player of its own, and   *)
(* the players row of a player of another session, whose id is submitted   *)
(* to this session's answer endpoint.                                      *)
(***************************************************************************)
OutsiderID == MaxPlayers + 1

OutsiderInit ==
    /\ GameInit
    /\ sc = [others |-> <<[ID |-> OutsiderID, Name |-> "eve", Score |-> 0]>>]

\* the player ids a request body may carry
SubmitterIDs == {players[i].ID : i \in 1..Len(players)} \cup {OutsiderID}

\* the INSERT and the UPDATE of SubmitAnswer, the UPDATE on whichever
\* players row has the id
OutsiderCreate(r) ==
    /\ SubmitAnswerCreate(r)
    /\ sc' = [sc EXCEPT !.others = RaiseScore(@, r.PlayerID, r.Points)]

OutsiderNext ==
    \/ StartGame(QuizOwner) /\ UNCHANGED <<sc, hub>>
    \/ StartQuiz(QuizOwner) /\ UNCHANGED <<sc, hub>>
    \/ JoinGame("ann") /\ UNCHANGED <<sc, hub>>
    \/ \E p \in SubmitterIDs, q \in 1..(MaxQuestions + 1),
          o \in OptionInputs, ts \in TimeSpentInputs :
            SubmitAnswerCheck(p, q, o, ts) /\ UNCHANGED <<sc, hub>>
    \/ \E r \in BagToSet(inflight) : OutsiderCreate(r) /\ UNCHANGED hub
    \/ \E r \in BagToSet(inflight) : SubmitAnswerGetState(r) /\ UNCHANGED <<sc, hub>>
    \/ \E r \in BagToSet(inflight) : SubmitAnswerStore(r) /\ UNCHANGED <<sc, hub>>

OutsiderSpec == OutsiderInit /\ [][OutsiderNext]_vars

(***************************************************************************)
(* The tick specification: the host's calls, one player's join, and timer  *)
(* goroutines whose tick is two steps, the read of the snapshot and the    *)
(* write of the copy it read, with other requests running in between.      *)
(***************************************************************************)
TickNext ==
    \/ StartGame(QuizOwner) /\ UNCHANGED <<sc, hub>>
    \/ StartQuiz(QuizOwner) /\ UNCHANGED <<sc, hub>>
    \/ NextQuestion(QuizOwner) /\ UNCHANGED <<sc, hub>>
    \/ JoinGame("ann") /\ UNCHANGED <<sc, hub>>
    \/ \E t \in BagToSet(timers) : TimerRead(t) /\ UNCHANGED <<sc, hub>>
    \/ \E t \in BagToSet(timers) : TimerStore(t) /\ UNCHANGED <<sc, hub>>
    \/ \E t \in BagToSet(timers) : TimerExpire(t) /\ UNCHANGED <<sc, hub>>

TickSpec == Init /\ [][TickNext]_vars

(***************************************************************************)
(* Claims.                                                                 *)
(***************************************************************************)
StatusRank(status) ==
    CASE status = "waiting" -> 0
      [] status = "active" -> 1
      [] status = "finished" -> 2

\* the game_answers rows of a player for a question, counted with copies
RowCount(p, q) ==
    LET rows == {a \in DOMAIN answers : a.PlayerID = p /\ a.QuestionID = q}
        Sum[S \in SUBSET rows] ==
            IF S = {} THEN 0
            ELSE LET a == CHOOSE x \in S : TRUE
                 IN  answers[a] + Sum[S \ {a}]
    IN  Sum[rows]

\* whether the store holds a game_answers row of the player for the question
HasRecord(p, q) ==
    \E a \in DOMAIN answers : a.PlayerID = p /\ a.QuestionID = q

\* C1: the current_question_index of the live snapshot never decreases,
\* whatever is called and in whatever order.
C1_IndexNeverDecreases ==
    [][(HasState /\ cache' # NilState) =>
          cache'.CurrentQuestionIndex >= cache.CurrentQuestionIndex]_vars

\* C2: every successful NextQuestion call on an active session raises
\* current_question_index by exactly 1.
C2_AdvanceByOne ==
    [][\A u \in Users :
          (/\ HasGame /\ game.Status = "active"
           /\ HasState /\ cache.Status = "active"
           /\ NextQuestion(u)
           /\ resp'.err = "")
          => cache'.CurrentQuestionIndex = cache.CurrentQuestionIndex + 1]_vars

\* C3: neither the durable status nor the snapshot status of a session
\* ever moves backward along waiting -> active -> finished.
C3_StatusMonotone ==
    [][/\ (HasGame /\ game' # NilGame) =>
              StatusRank(game'.Status) >= StatusRank(game.Status)
       /\ (HasState /\ cache' # NilState) =>
              StatusRank(cache'.Status) >= StatusRank(cache.Status)]_vars

\* C4: on a finished session every StartQuiz and NextQuestion call fails,
\* changes neither the snapshot nor the durable record and broadcasts
\* nothing; game_end is broadcast at most once.
C4_FinishedIsTerminal ==
    [][/\ \A u \in Users :
            (/\ HasGame /\ game.Status = "finished"
             /\ (StartQuiz(u) \/ NextQuestion(u)))
            => (/\ resp'.err # ""
                /\ UNCHANGED <<game, cache>>
                /\ NoBroadcast)
       /\ sent'.game_end <= 1]_vars

\* C5: StartQuiz succeeds only on a waiting session; on an active or
\* finished one it fails and leaves status, index, current question and
\* timers as they are.
C5_StartQuizOnlyWhenWaiting ==
    [][\A u \in Users :
          (HasGame /\ game.Status # "waiting" /\ StartQuiz(u))
          => (resp'.err # "" /\ UNCHANGED <<game, cache, timers>>)]_vars

\* C6: a SubmitAnswer call made once a record exists for the same
\* (session, participant, question) fails, creates no record, overwrites
\* none and leaves every score as it is.
C6_SecondSubmitRejected ==
    [][\A p \in 1..MaxPlayers, q \in 1..MaxQuestions,
          o \in OptionInputs, ts \in TimeSpentInputs :
          (HasRecord(p, q) /\ SubmitAnswerCheck(p, q, o, ts))
          => (/\ resp' = Resp("SubmitAnswer", resp'.err)
              /\ resp'.err # ""
              /\ UNCHANGED <<answers, players, inflight, cache>>)]_vars

\* a second submission was rejected and the participant's score is the
\* points of the only record
C6_Witness ==
    /\ resp = Resp("SubmitAnswer", "answer already submitted")
    /\ inflight = EmptyBag
    /\ \E i \in 1..Len(players) :
          /\ players[i].Score > 0
          /\ \E a \in DOMAIN answers :
                /\ a.PlayerID = players[i].ID
                /\ answers[a] = 1
                /\ a.Points = players[i].Score
                /\ \A b \in DOMAIN answers : b.PlayerID = a.PlayerID => b = a

\* C7: at most one AnswerRecord exists for a (session, participant,
\* question) triple, under any interleaving of SubmitAnswer calls.
C7_AtMostOneRecord ==
    \A p \in 1..MaxPlayers, q \in 1..MaxQuestions : RowCount(p, q) <= 1

\* C8: no participant's score ever decreases, in the durable store or in
\* the snapshot.
C8_ScoreMonotone ==
    [][/\ \A i \in 1..Len(players) : players'[i].Score >= players[i].Score
       /\ (HasState /\ cache' # NilState) =>
             \A i \in 1..Len(cache.Players), j \in 1..Len(cache'.Players) :
                cache.Players[i].ID = cache'.Players[j].ID
                => cache'.Players[j].Score >= cache.Players[i].Score]_vars

\* the specification's scoring function
ReferencePoints(timeSpent, timeLimit, isCorrect) ==
    IF isCorrect
    THEN 100 + Max(0, (50 * (timeLimit - timeSpent)) \div timeLimit)
    ELSE 0

\* C9: calculatePoints equals the reference function for every time limit
\* in 1..MaxTimeLimit and every time spent in 0..time limit; time limit 30
\* and time spent 10 give 133.
C9_PointsMatchReference ==
    (sc.pc = "calculated" /\ sc.reqTimeSpent \in 0..sc.timeLimit)
    => /\ sc.points = ReferencePoints(sc.reqTimeSpent, sc.timeLimit, sc.isCorrect)
       /\ (sc.timeLimit = 30 /\ sc.reqTimeSpent = 10 /\ sc.isCorrect)
              => sc.points = 133
       /\ ~sc.isCorrect => sc.points = 0

C9_Witness ==
    /\ sc.pc = "calculated"
    /\ sc.timeLimit = 30 /\ sc.reqTimeSpent = 10 /\ sc.isCorrect
    /\ sc.points = 133

\* C10: for every time_spent a client can send, a correct answer scored by
\* SubmitAnswer earns between 100 and 150 points.
C10_CorrectScoreInRange ==
    (sc.pc = "submitted" /\ sc.isCorrect) => sc.points \in 100..150

\* C11: a SubmitAnswer request whose time_spent is missing (zero) is scored
\* as if it were the full time limit: the stored time spent is the time
\* limit, a correct answer earns exactly 100 points and a wrong one 0.
C11_ZeroTimeSpentIsFullLimit ==
    (sc.pc = "submitted" /\ sc.reqTimeSpent = 0)
    => /\ sc.timeSpent = sc.timeLimit
       /\ sc.isCorrect => sc.points = 100
       /\ ~sc.isCorrect => sc.points = 0

C11_Witness ==
    /\ sc.pc = "submitted"
    /\ sc.reqTimeSpent = 0
    /\ sc.timeLimit > 1
    /\ sc.timeSpent = sc.timeLimit
    /\ sc.isCorrect
    /\ sc.points = 100

\* whether the snapshot shows question q as the session's current question
IsCurrentQuestion(q) ==
    /\ HasState
    /\ cache.CurrentQuestion # NilQuestion
    /\ cache.CurrentQuestion.ID = q

\* C12: a SubmitAnswer call naming a question that is not the session's
\* current question fails, and creates no record and changes no score.
C12_OnlyOpenQuestionAccepted ==
    [][\A p \in 1..MaxPlayers, q \in 1..(MaxQuestions + 1),
          o \in OptionInputs, ts \in TimeSpentInputs :
          (~IsCurrentQuestion(q) /\ SubmitAnswerCheck(p, q, o, ts))
          => (/\ resp' = Resp("SubmitAnswer", resp'.err)
              /\ resp'.err # ""
              /\ UNCHANGED <<answers, players, inflight>>)]_vars

\* C13: a SubmitAnswer call on a session whose status is waiting or
\* finished fails, creates no record, changes no score in the store or in
\* the snapshot, and broadcasts nothing.
C13_InactiveSessionRejects ==
    [][\A p \in 1..MaxPlayers, q \in 1..(MaxQuestions + 1),
          o \in OptionInputs, ts \in TimeSpentInputs :
          (/\ HasGame
           /\ game.Status \in {"waiting", "finished"}
           /\ SubmitAnswerCheck(p, q, o, ts))
          => (/\ resp' = Resp("SubmitAnswer", "game is not active")
              /\ UNCHANGED <<answers, players, cache, inflight>>
              /\ NoBroadcast)]_vars

\* a call was refused on a waiting session with a player in it
C13_Witness ==
    /\ HasGame
    /\ game.Status = "waiting"
    /\ Len(players) >= 1
    /\ resp = Resp("SubmitAnswer", "game is not active")

\* the step broadcast a question_start
QuestionStarted ==
    /\ msgFlip' # msgFlip
    /\ lastMsg'.type = "question_start"

\* a question is open: its timer has not yet called EndQuestion
QuestionOpen == timers # EmptyBag

\* C14: StartQuestion succeeds (stores the question, broadcasts
\* question_start, spawns a timer) only for an index within
\* 0..total_questions-1 and only when no question of the session is open.
C14_StartQuestionGuarded ==
    [][QuestionStarted =>
          (/\ lastMsg'.question_index \in 0..(numQuestions - 1)
           /\ ~QuestionOpen)]_vars

\* C15: for every question index at most one question_end is ever
\* broadcast, whatever the interleaving of host calls and timer expiries.
C15_OneQuestionEnd ==
    \A i \in 0..(MaxQuestions - 1) : sent.question_end[i] <= 1

\* C16: the question events of a session are ordered: question_start(i+1)
\* is broadcast only after question_end(i) has been broadcast.
C16_EndBeforeNextStart ==
    [][(QuestionStarted /\ lastMsg'.question_index > 0)
          => sent.question_end[lastMsg'.question_index - 1] >= 1]_vars

\* the session has moved past the question of timer t, or has finished
TimerIsStale(t) ==
    \/ HasGame /\ game.Status = "finished"
    \/ HasState /\ cache.CurrentQuestionIndex # t.questionIndex

\* C17: a timer whose question the session has left (advanced past it, or
\* finished) takes no further step: no timer_update, no snapshot write, no
\* EndQuestion; and at most one timer runs per session.
C17_TimerCancelled ==
    [][/\ \A t \in BagToSet(timers) :
             TimerIsStale(t) => ~(TimerTick(t) \/ TimerExpire(t))
       /\ BagSize(timers') <= 1]_vars

\* a timer of question i is running
TimerRuns(i) == \E t \in BagToSet(timers) : t.questionIndex = i

\* the last broadcast is the question_end of question i
QuestionEnded(i) ==
    lastMsg.type = "question_end" /\ lastMsg.question_index = i

NoRecordFor(q) == \A a \in DOMAIN answers : a.QuestionID # q

\* C19: when a timer reaches zero and no answer was submitted for its
\* question, question_end is still broadcast for that index, with an empty
\* answers list and the question's correct option.
C19_EndWithoutAnswers ==
    [][\A t \in BagToSet(timers) :
          (NoRecordFor(t.questionIndex + 1) /\ TimerExpire(t))
          => (/\ msgFlip' # msgFlip
              /\ lastMsg'.type = "question_end"
              /\ lastMsg'.question_index = t.questionIndex
              /\ lastMsg'.answers = {}
              /\ OptionIsCorrect(lastMsg'.correct_option)
              /\ OptionQuestion(lastMsg'.correct_option) = t.questionIndex + 1)]_vars

C19_Witness ==
    /\ lastMsg.type = "question_end"
    /\ lastMsg.question_index = 1
    /\ lastMsg.answers = {}
    /\ lastMsg.correct_option = 3
    /\ answers = EmptyBag

\* C20: when the connection the quiz creator opened is unregistered while
\* the session is active, the session becomes finished and a game_end with
\* the creator-disconnected reason is broadcast.
C20_HostDisconnectEndsGame ==
    [][\A client \in hub.clients :
          (/\ client.creator
           /\ HasGame /\ game.Status = "active"
           /\ UnregisterClient(client))
          => (/\ game'.Status = "finished"
              /\ msgFlip' # msgFlip
              /\ lastMsg'.type = "game_end"
              /\ "reason" \in DOMAIN lastMsg'
              /\ lastMsg'.reason = "creator_disconnected")]_vars

\* the matching clients with room that a broadcast has not visited
Unserved(call) ==
    {c \in hub.clients : /\ c.id \in call.todo
                         /\ EqualFold(c.gamePin, call.gamePin)
                         /\ HasRoom(c)}

VisitDelivers(call, id) ==
    \A c \in hub.clients :
        IF c.id = id /\ EqualFold(c.gamePin, call.gamePin)
        THEN HasRoom(c) => Enqueue(c, call.data) \in hub'.clients
        ELSE c \in hub'.clients

(***************************************************************************)
(* C21: BroadcastToGame puts its message on the send channel of every      *)
(* registered client whose gamePin matches the given pin without regard to *)
(* case and whose channel has room, and on the channel of no client        *)
(* registered under another pin: a visit of such a client appends the data *)
(* to its channel, a visit changes no other client's channel, and no       *)
(* broadcast ends with a matching client with room left unvisited.         *)
(***************************************************************************)
C21_BroadcastReachesMatchingOnly ==
    /\ [](\A call \in sc.calls : call.pc = "panic" => Unserved(call) = {})
    /\ [][\A call \in sc.calls, id \in 1..MaxClients :
             BroadcastVisit(call, id) => VisitDelivers(call, id)]_vars

VisitDrops(call, id) ==
    \A c \in hub.clients :
        (c.id = id /\ EqualFold(c.gamePin, call.gamePin) /\ ~HasRoom(c))
            => /\ \A d \in hub'.clients : d.id # id
               /\ \E d \in sc'.closed : d.id = id

\* the broadcast that begins in this step will visit none of these clients
BeginsWithout(clients) ==
    \A call \in sc'.calls \ sc.calls, c \in clients : c.id \notin call.todo

(***************************************************************************)
(* C22: a broadcast is never held up by a slow connection: a matching      *)
(* client whose send channel is full is closed and removed from the        *)
(* registry by the visit, every broadcast that has begun is able to go on  *)
(* to its return, and a client that was dropped is visited by no broadcast *)
(* that begins later.                                                      *)
(***************************************************************************)
C22_BroadcastNeverStalls ==
    /\ [](\A call \in sc.calls : call.pc # "panic")
    /\ [][/\ \A call \in sc.calls, id \in 1..MaxClients :
                BroadcastVisit(call, id) => VisitDrops(call, id)
          /\ \A n \in 1..MaxCalls, gamePin \in BroadcastPins, t \in BroadcastTypes :
                BroadcastBegin(n, gamePin, t) => BeginsWithout(sc.closed)]_vars

Reply(messageType) == IF messageType = "ping" THEN PongMsg ELSE GameStateSyncMsg

RepliedOnce(client, messageType) ==
    /\ ~sc'.panicked
    /\ Enqueue(client, Reply(messageType)) \in hub'.clients
    /\ \A c \in hub.clients : c # client => c \in hub'.clients
    /\ Cardinality(hub'.clients) = Cardinality(hub.clients)

(***************************************************************************)
(* C23: a player_ready or request_game_state message from a connection is  *)
(* answered with exactly one game_state_sync carrying the current status,  *)
(* question index, current question and players, put on the channel of the *)
(* requesting client only, and a ping with exactly one pong on the         *)
(* sender's channel only; no other client's channel changes. (A requester  *)
(* whose channel is full at that moment is dropped, as the hub drops any   *)
(* unresponsive connection: that case is left aside.)                      *)
(***************************************************************************)
C23_RequestGetsOneDirectReply ==
    [][\A client \in hub.clients \cup sc.closed, t \in ClientMessages :
          (handleMessage(client, t) /\ (client \in sc.closed \/ HasRoom(client)))
              => RepliedOnce(client, t)]_vars

QuestionIsOpen(i) ==
    /\ HasState
    /\ cache.Status = "active"
    /\ cache.CurrentQuestionIndex = i
    /\ sent.question_end[i] = 0

\* msg carries a field that states which option of question i is correct
NamesCorrectOption(msg, i) ==
    \/ /\ "correct_option" \in DOMAIN msg
       /\ msg.question_index = i
    \/ /\ msg.type = "question_start"
       /\ msg.question_index = i
       /\ \E k \in DOMAIN msg.question.options :
             "IsCorrect" \in DOMAIN msg.question.options[k]

\* msg is the score_update of an answer to question i, and its points_earned
\* is positive exactly when the submitted option is a correct one
ScoreTellsCorrectness(msg, i) ==
    /\ msg.type = "score_update"
    /\ \E a \in BagToSet(answers) :
          /\ a.PlayerID = msg.player_id
          /\ a.QuestionID = QuestionID(i)
          /\ a.Points = msg.points_earned
          /\ (msg.points_earned > 0) <=> OptionIsCorrect(a.OptionID)

SnapshotHidesCorrectness ==
    (HasState /\ cache.CurrentQuestion # NilQuestion) =>
        \A k \in DOMAIN cache.CurrentQuestion.Options :
            "IsCorrect" \notin DOMAIN cache.CurrentQuestion.Options[k]

(***************************************************************************)
(* C24: while question i is open (it is the snapshot's current question    *)
(* and its question_end has not been broadcast), neither the latest        *)
(* message broadcast to the participants nor the stored snapshot lets a    *)
(* participant tell whether an option of question i is correct: no         *)
(* correct_option and no IsCorrect field for question i, and no value that *)
(* is determined by the correctness of an option a participant submitted.  *)
(***************************************************************************)
C24_NoCorrectnessWhileOpen ==
    \A i \in 0..(numQuestions - 1) :
        QuestionIsOpen(i) =>
            /\ ~NamesCorrectOption(lastMsg, i)
            /\ ~ScoreTellsCorrectness(lastMsg, i)
            /\ SnapshotHidesCorrectness

ListsEveryPlayerOnce(board) ==
    /\ Len(board) = Len(players)
    /\ \A p \in 1..Len(players) :
          Cardinality({k \in 1..Len(board) : board[k].ID = players[p].ID}) = 1

ScoreThenJoinOrder(board) ==
    \A i, j \in 1..Len(board) :
        i < j => \/ board[i].Score > board[j].Score
                 \/ /\ board[i].Score = board[j].Score
                    /\ board[i].ID < board[j].ID

(***************************************************************************)
(* C25: the final_leaderboard of the game_end that NextQuestion broadcasts *)
(* when no question is left lists every player of the game exactly once,   *)
(* in descending order of score, and players with equal scores in the      *)
(* order in which they joined (the order of their ids).                    *)
(***************************************************************************)
C25_FinalLeaderboardOrder ==
    (lastMsg.type = "game_end" /\ "final_leaderboard" \in DOMAIN lastMsg) =>
        /\ ListsEveryPlayerOnce(lastMsg.final_leaderboard)
        /\ ScoreThenJoinOrder(lastMsg.final_leaderboard)

Rejected ==
    /\ resp'.err # ""
    /\ UNCHANGED <<game, cache, players, answers, timers, sent, lastMsg, msgFlip>>

(***************************************************************************)
(* C26: StartGame, StartQuiz or NextQuestion requested by a user who does  *)
(* not own the quiz returns an error and leaves the game's status, the     *)
(* snapshot (question index, current question, scores), the players rows   *)
(* and the running timers as they were, and broadcasts nothing.            *)
(***************************************************************************)
C26_NonOwnerControlRejected ==
    [][\A u \in Users \ {QuizOwner} :
          (StartGame(u) \/ StartQuiz(u) \/ NextQuestion(u)) => Rejected]_vars

\* a user who is not the owner has just been refused NextQuestion on an
\* active game whose question timer is running
C26_Witness ==
    /\ resp = Resp("NextQuestion", "unauthorized to control this game")
    /\ HasGame
    /\ game.Status = "active"
    /\ timers # EmptyBag

PinsDiffer ==
    \A i, j \in 1..Len(sc.games) :
        i # j => ToLower(sc.games[i].Pin) # ToLower(sc.games[j].Pin)

CreatedBesideTheOthers ==
    /\ resp'.err = ""
    /\ Len(sc'.games) = Len(sc.games) + 1
    /\ \A pin \in PinValues : PinTaken(pin) => sc'.redis[pin] = sc.redis[pin]

(***************************************************************************)
(* C27: no two games have the same pin once both are put in lower case,    *)
(* and a StartGame of the owner whose generated pin is already taken draws *)
(* another pin: it still succeeds and adds one game, and it leaves the     *)
(* stored snapshot of every existing game as it was.                       *)
(***************************************************************************)
C27_PinCollisionRetried ==
    /\ []PinsDiffer
    /\ [][\A pin \in PinValues :
             StartGameWithPin(QuizOwner, pin) => CreatedBesideTheOthers]_vars

NamesDiffer ==
    \A i, j \in 1..Len(players) : i # j => players[i].Name # players[j].Name

TakenNameRefused ==
    \A name \in Names :
        (JoinGameCheck(name) /\ HasGame /\ NameTaken(name))
            => /\ resp'.err # ""
               /\ UNCHANGED <<players, cache, sc>>

(***************************************************************************)
(* C28: in every state the names of the players of the game differ from    *)
(* one another, whatever the order in which the steps of concurrent        *)
(* JoinGame calls are taken, and a JoinGame whose name a player of the     *)
(* game already has fails and creates no player.                           *)
(***************************************************************************)
C28_NamesUniqueInGame ==
    /\ []NamesDiffer
    /\ [][TakenNameRefused]_vars

RebuiltFromRows(gameState) ==
    /\ gameState.Status = game.Status
    /\ gameState.Players = GamePlayers(players)
    /\ gameState.CurrentQuestion = NilQuestion
    /\ gameState.CurrentQuestionIndex = -1
    /\ gameState.TotalQuestions = numQuestions

(***************************************************************************)
(* C29: when the snapshot of an existing game is missing from the cache,   *)
(* GetCurrentGameState returns no error; what it returns is built from the *)
(* games and players rows (the row's status, every player with its score,  *)
(* no current question, question index -1), and it is stored as the        *)
(* game's snapshot.                                                        *)
(***************************************************************************)
C29_MissingSnapshotRebuilt ==
    [][(GetCurrentGameState /\ HasGame /\ ~HasState)
          => /\ resp'.err = ""
             /\ RebuiltFromRows(CurrentGameState)
             /\ cache' = CurrentGameState]_vars

\* the snapshot of an active game with a player and a running question
\* has expired and has just been rebuilt
C29_Witness ==
    /\ resp = Resp("GetCurrentGameState", "")
    /\ HasGame /\ HasState
    /\ game.Status = "active"
    /\ timers # EmptyBag
    /\ Len(players) > 0
    /\ RebuiltFromRows(cache)

ControlOperation ==
    \/ StartGame(QuizOwner)
    \/ StartQuiz(QuizOwner)
    \/ NextQuestion(QuizOwner)
    \/ \E n \in Names : JoinGame(n)

(***************************************************************************)
(* C30: a control operation (StartGame, StartQuiz with its StartQuestion,  *)
(* NextQuestion with its StartQuestion, JoinGame) that runs while the      *)
(* write of the snapshot fails returns an error: none of them reports      *)
(* success when its snapshot was not written.                              *)
(***************************************************************************)
C30_LostWriteIsReported ==
    [][(StoreFails /\ ControlOperation) => resp'.err # ""]_vars

RECURSIVE SumPoints(_)
\* the points of a set of game_answers rows, each as often as it is stored
SumPoints(rows) ==
    IF rows = {}
    THEN 0
    ELSE LET a == CHOOSE x \in rows : TRUE
         IN  a.Points * CopiesIn(a, answers) + SumPoints(rows \ {a})

\* the points of the game_answers rows of one player
PointsOf(playerID) ==
    SumPoints({a \in BagToSet(answers) : a.PlayerID = playerID})

\* every players row is in the snapshot, with the points of its answers
NoUpdateLost ==
    /\ Len(cache.Players) = Len(players)
    /\ \A i \in 1..Len(cache.Players) :
        cache.Players[i].Score = PointsOf(cache.Players[i].ID)

(***************************************************************************)
(* C31: the read-modify-write sequences on the snapshot are serialized:    *)
(* once no SubmitAnswer request is in flight, the snapshot holds every     *)
(* player that joined and each player's snapshot score is the sum of the   *)
(* points of that player's game_answers rows: no update is lost.           *)
(***************************************************************************)
C31_SnapshotUpdatesSerialized ==
    (HasState /\ inflight = EmptyBag) => NoUpdateLost

\* the snapshot holds a current question
HasCurrentQuestion == cache.CurrentQuestion # NilQuestion

(***************************************************************************)
(* C32: the snapshot is well formed in every reachable state: the index    *)
(* lies in -1..total_questions; it is -1 while the status is waiting; a    *)
(* current question is present only while the status is active and the     *)
(* index is in 0..total_questions-1; when the status is finished the index *)
(* is total_questions and no current question is present.                  *)
(***************************************************************************)
C32_SnapshotWellFormed ==
    HasState =>
        /\ cache.CurrentQuestionIndex \in -1..cache.TotalQuestions
        /\ cache.Status = "waiting" => cache.CurrentQuestionIndex = -1
        /\ HasCurrentQuestion =>
            /\ cache.Status = "active"
            /\ cache.CurrentQuestionIndex \in 0..(cache.TotalQuestions - 1)
        /\ cache.Status = "finished" =>
            /\ cache.CurrentQuestionIndex = cache.TotalQuestions
            /\ ~HasCurrentQuestion

\* the snapshot after the step is the one before it, or the one before it
\* with the time left of timer t's own question replaced
WritesOnlyTimeLeft(t) ==
    \/ cache' = cache
    \/ /\ HasState /\ HasCurrentQuestion
       /\ cache.CurrentQuestion.ID = QuestionID(t.questionIndex)
       /\ cache' = [cache EXCEPT !.CurrentQuestion.TimeLeft = t.timeLeft]

(***************************************************************************)
(* C33: the write of a tick of the timer of question i changes only the    *)
(* time left of question i in the snapshot: status, index, current         *)
(* question and players stay as they are at the moment of the write, and   *)
(* the time left is never written into another current question.           *)
(***************************************************************************)
C33_TickWritesOnlyTimeLeft ==
    [][\A t \in BagToSet(timers) : TimerStore(t) => WritesOnlyTimeLeft(t)]_vars

\* the message types of a running game
GameplayTypes == {"question_start", "timer_update", "question_end", "score_update"}

\* the step broadcasts a message
Broadcasts == msgFlip' # msgFlip

(***************************************************************************)
(* C34: once game_end has been broadcast to the session, no further        *)
(* question_start, timer_update, question_end or score_update is           *)
(* broadcast to it.                                                        *)
(***************************************************************************)
C34_SilentAfterGameEnd ==
    [][(sent.game_end > 0 /\ Broadcasts) => lastMsg'.type \notin GameplayTypes]_vars

\* the id is the id of a player of this session
IsParticipant(playerID) ==
    \E i \in 1..Len(players) : players[i].ID = playerID

\* no game_answers row of this session names a player of another session,
\* and no player of another session has got points
OutsiderUntouched ==
    /\ \A a \in BagToSet(answers) : IsParticipant(a.PlayerID)
    /\ \A i \in 1..Len(sc.others) : sc.others[i].Score = 0

\* a submission with the id of a player of another session fails
OutsiderRefused ==
    \A q \in 1..(MaxQuestions + 1), o \in OptionInputs, ts \in TimeSpentInputs :
        SubmitAnswerCheck(OutsiderID, q, o, ts)
            => /\ resp'.err # ""
               /\ inflight' = inflight

(***************************************************************************)
(* C35: SubmitAnswer on a session changes only the scores of that          *)
(* session's participants: a submission whose player id is not a           *)
(* participant of the session fails, creates no game_answers row and       *)
(* changes no player's score in any session.                               *)
(***************************************************************************)
C35_OutsiderSubmissionRefused ==
    []OutsiderUntouched /\ [][OutsiderRefused]_vars

\* the option of a game_answers row is the correct option of the row's
\* own question
OptionOfItsQuestion(a) ==
    /\ OptionQuestion(a.OptionID) = a.QuestionID
    /\ OptionIsCorrect(a.OptionID)

(***************************************************************************)
(* C36: a game_answers row is marked correct and has more than 0 points    *)
(* only if its option is the correct option of the question the row        *)
(* names: an option of another question is refused or scored 0.            *)
(***************************************************************************)
C36_OptionBelongsToQuestion ==
    \A a \in BagToSet(answers) :
        (a.IsCorrect \/ a.Points > 0) => OptionOfItsQuestion(a)

(***************************************************************************)
(* C37: a client's send channel is closed at most once and nothing is      *)
(* sent on it once it is closed, however broadcasts, state replies, pongs  *)
(* and the hub's unregister handling interleave: no goroutine ever         *)
(* panics on a closed channel.                                             *)
(***************************************************************************)
C37_NoSendAfterClose == ~sc.panicked

\* the ids of the clients in h.clients
RegistryIDs == {c.id : c \in hub.clients}

\* the broadcasts that are inside their loop over h.clients and still have
\* clients to visit, other than the one that takes the step
Bystanders == {call \in sc.calls \cap sc'.calls : call.todo # {}}

(***************************************************************************)
(* C38: h.clients is only changed under exclusive access: no step adds or  *)
(* removes a client while another goroutine is inside its loop over        *)
(* h.clients.                                                              *)
(***************************************************************************)
C38_RegistryChangedExclusively ==
    [][RegistryIDs' # RegistryIDs => Bystanders = {}]_vars

\* a readPump goroutine has panicked, which nothing recovers: the process
\* has ended and no lock is left to wait for
ProcessEnded == sc.panicked /\ \A call \in sc.calls : call.pc # "panic"

(***************************************************************************)
(* C39: the hub never deadlocks: h.mutex is always released again, so      *)
(* that Hub.Run can take it for the register and unregister requests it    *)
(* receives: as long as the process runs, every broadcast that has taken   *)
(* the lock for reading eventually gives it back.                          *)
(***************************************************************************)
C39_RegistryLockReleased ==
    \A n \in 1..MaxCalls :
        InsideBroadcast(n) ~> (~InsideBroadcast(n) \/ ProcessEnded)

\* SubmitAnswer has scored a correct option of a question whose stored
\* time limit is zero or negative
ScoredWithoutLimit ==
    /\ sc.pc \in {"submitted", "panic"}
    /\ sc.isCorrect
    /\ sc.timeLimit <= 0

(***************************************************************************)
(* C40: scoring is total: for a question whose stored time limit is zero   *)
(* or negative, SubmitAnswer of a correct option gives a score in          *)
(* 100..150 and never divides by zero.                                     *)
(***************************************************************************)
C40_ScoringTotal ==
    ScoredWithoutLimit => (sc.pc # "panic" /\ sc.points \in 100..150)

=============================================================================
